---- MODULE Spec2Model ----
(***************************************************************************)
(* GPTStudio panel: the persona source (CustomGptService), the context     *)
(* snapshot (buildContextBundle), the two chat backends (MockModelClient,  *)
(* OpenAiModelClient) and the session controller (GptStudioViewProvider).  *)
(*                                                                         *)
(* Five state machines share the module:                                   *)
(*   SpecLoad     one CustomGptService and one call of load()              *)
(*   SpecMock     one call of MockModelClient.chat()                       *)
(*   SpecLive     one OpenAiModelClient and one call of chat()             *)
(*   SpecContext  one call of buildContextBundle()                         *)
(*   Spec         one provider and its panel view                          *)
(* Each leaves the variables of the others at their initial values.        *)
(*                                                                         *)
(* Text is modelled as a sequence of pieces.  A piece is one character     *)
(* ("a", ",", " ", "\n") or a literal of the source that holds no          *)
(* separator the code splits or trims on ("Custom GPT: ").  Concatenation  *)
(* is \o, the empty string is <<>>.  An optional value (T | undefined) is  *)
(* a record [has, v].  A call that can throw yields a record with a threw  *)
(* field.                                                                  *)
(***************************************************************************)
EXTENDS Integers, Sequences, FiniteSets, TLC

VARIABLES
  svcOpts,      \* CustomGptService: the options the constructor stored
  svcPc,        \* "constructed" | "fetching" | "loaded"
  svcLog,       \* lines appended to the logger so far
  svcFetched,   \* targets of the GET requests issued so far
  svcNet,       \* what the remote endpoint answered (None until it settles)
  svcResult,    \* outcome of load(): [raised, ret, source, envRead]
  mkReq,        \* MockModelClient.chat: the ChatRequest of the call
  mkPc,         \* "idle" | "delay" | "returned"
  mkParts,      \* response.split('\n'), the lines being streamed
  mkNext,       \* index of the next line to deliver
  mkChunks,     \* chunks delivered to onChunk so far, in order
  mkRet,        \* the text chat() resolved with (None until it returns)
  lvClient,     \* OpenAiModelClient: apiKey and baseUrl of the constructor
  lvReq,        \* OpenAiModelClient.chat: the ChatRequest of the call
  lvPc,         \* "idle" | "fetching" | "returned" | "threw"
  lvPosts,      \* the POST requests issued so far
  lvNet,        \* what the chat endpoint answered (NoChatNet until it settles)
  lvChunks,     \* chunks delivered to onChunk so far, in order
  lvOut,        \* outcome of chat(): [threw, err, ret]
  cxWs,         \* buildContextBundle: the workspace and window as the editor reports them
  cxPc,         \* "idle" | "finding" | "returned" | "raised"
  cxOut,        \* the ContextBundle returned (NoBundle until it returns)
  env,              \* process.env as the provider's constructor read it
  modelClient,      \* GptStudioViewProvider.modelClient
  customGptService, \* options of GptStudioViewProvider.customGptService
  view,             \* whether resolveWebviewView has set this.view
  selectedModel,
  customGpts,
  selectedCustomGpt,
  mode,
  lastContext,
  refreshPc,        \* refreshCustomGpts: "idle" | "loading" | "done"
  readyPc,          \* 'ready' handler: "none" | "ctx" | "done" | "unhandled"
  turns,            \* chat turns: position, request, messages posted, log
  nUi,              \* selection events and unknown messages handled so far
  lastState,        \* the last 'state' message posted to the webview
  nStates,          \* number of 'state' messages posted
  panelMsgs,        \* messages posted outside chat turns, other than 'state'
  reloads,          \* history: the selection each completed reload replaced
  weave             \* history: the turn that posted the latest responseChunk,
                    \* and whether a turn's chunks came around another's

svcVars == <<svcOpts, svcPc, svcLog, svcFetched, svcNet, svcResult>>

mkVars == <<mkReq, mkPc, mkParts, mkNext, mkChunks, mkRet>>

lvVars == <<lvClient, lvReq, lvPc, lvPosts, lvNet, lvChunks, lvOut>>

cxVars == <<cxWs, cxPc, cxOut>>

sessVars ==
  <<env, modelClient, customGptService, view, selectedModel, customGpts,
    selectedCustomGpt, mode, lastContext, refreshPc, readyPc, turns, nUi,
    lastState, nStates, panelMsgs, reloads, weave>>

vars == <<svcVars, mkVars, lvVars, cxVars, sessVars>>

----------------------------------------------------------------------------
(* Bounds *)

MaxEnvLen == 5      \* longest GPTSTUDIO_CUSTOM_GPTS string drawn
MaxApiItems == 2    \* longest data array the remote endpoint answers with
MaxPromptLen == 2   \* longest prompt drawn for the simulated backend
MaxTurns == 2       \* chat submissions per session
MaxUi == 1          \* selection events and unknown messages per session
MaxResolves == 2    \* times the panel's view is resolved (created, re-created)

----------------------------------------------------------------------------
(* Optional values and text *)

None == [has |-> FALSE, v |-> <<>>]

Some(x) == [has |-> TRUE, v |-> x]

\* JS truthiness of string | undefined: undefined and '' are falsy
Truthy(o) == o.has /\ o.v # <<>>

\* all sequences over S of length at most n
SeqsUpTo(S, n) == UNION {[1..k -> S] : k \in 0..n}

RECURSIVE Concat(_)
\* parts.join('')
Concat(parts) ==
  IF parts = <<>> THEN <<>> ELSE Head(parts) \o Concat(Tail(parts))

RECURSIVE Join(_, _)
\* parts.join(sep)
Join(parts, sep) ==
  IF parts = <<>> THEN <<>>
  ELSE IF Len(parts) = 1 THEN Head(parts)
  ELSE Head(parts) \o sep \o Join(Tail(parts), sep)

RECURSIVE Split(_, _)
\* s.split(c) for a one-character separator: ''.split(c) is ['']
Split(s, c) ==
  IF \A i \in 1..Len(s) : s[i] # c THEN <<s>>
  ELSE LET i == CHOOSE j \in 1..Len(s) :
                  s[j] = c /\ \A k \in 1..(j - 1) : s[k] # c
       IN  <<SubSeq(s, 1, i - 1)>> \o Split(SubSeq(s, i + 1, Len(s)), c)

WhiteSpace == {" ", "\t", "\n"}

RECURSIVE TrimStart(_)
TrimStart(s) ==
  IF s # <<>> /\ Head(s) \in WhiteSpace THEN TrimStart(Tail(s)) ELSE s

RECURSIVE TrimEnd(_)
TrimEnd(s) ==
  IF s # <<>> /\ s[Len(s)] \in WhiteSpace
  THEN TrimEnd(SubSeq(s, 1, Len(s) - 1)) ELSE s

\* s.trim()
Trim(s) == TrimEnd(TrimStart(s))

\* s.includes(sub), piece by piece
Contains(s, sub) ==
  \E i \in 0..(Len(s) - Len(sub)) : SubSeq(s, i + 1, i + Len(sub)) = sub

----------------------------------------------------------------------------
(* CustomGptService (src/src/customGptService.ts) *)

DefaultBaseUrl == <<"https://api.openai.com/v1">>

\* this.baseUrl = options.baseUrl ?? 'https://api.openai.com/v1'
BaseUrlOf(opts) == IF opts.baseUrl.has THEN opts.baseUrl.v ELSE DefaultBaseUrl

\* private log(message): this.logger?.appendLine(`[CustomGptService] ${message}`)
log(opts, lines, message) ==
  IF opts.logger THEN Append(lines, <<"[CustomGptService] ">> \o message)
  ELSE lines

MsgDisabled == <<"Custom GPT API fetch disabled via override.">>

MsgSkipped ==
  <<"Custom GPT API fetch skipped (no endpoint override). Using env/defaults.">>

MsgDefaults == <<"Using default demo custom GPTs.">>

MsgFromApi(n) == <<"Loaded ", ToString(n), " custom GPT(s) from API.">>

\* the env line without its count
MsgFromEnv_NoCount(n) ==
  <<"Loaded custom GPT(s) from environment fallback.">>

MsgFromEnv(n) ==
  <<"Loaded ", ToString(n), " custom GPT(s) from environment fallback.">>

MsgFailed(err) == <<"Custom GPT API load failed: ">> \o err

\* the default-on reading of the README: any override other than '' calls the API
shouldCallApi_DefaultOn(opts, lines) ==
  IF opts.endpointOverride = Some(<<>>)
  THEN [ret |-> FALSE, log |-> log(opts, lines, MsgDisabled)]
  ELSE [ret |-> TRUE, log |-> lines]

\* private shouldCallApi(): boolean, with the lines it logs
shouldCallApi(opts, lines) ==
  IF opts.endpointOverride = Some(<<>>)
  THEN [ret |-> FALSE, log |-> log(opts, lines, MsgDisabled)]
  ELSE IF Truthy(opts.endpointOverride)
  THEN [ret |-> TRUE, log |-> lines]
  ELSE [ret |-> FALSE, log |-> log(opts, lines, MsgSkipped)]

\* const endpoint = this.endpointOverride ?? `${this.baseUrl}/gpts`
Endpoint(opts) ==
  IF opts.endpointOverride.has THEN opts.endpointOverride.v
  ELSE BaseUrlOf(opts) \o <<"/gpts">>

\* label: item.display_name ?? item.name ?? item.id
LabelOf(item) ==
  IF item.display_name.has THEN item.display_name
  ELSE IF item.name.has THEN item.name
  ELSE item.id

\* (item) => ({ id: item.id, label: ... })
MapItem(item) == [id |-> item.id, label |-> LabelOf(item)]

\* the object literal with its optional fields read as strings
AsPersona(m) == [id |-> m.id.v, label |-> m.label.v]

\* body.data.map(...).filter((item) => !!item.id)
MapData(data) ==
  LET mapped == [i \in 1..Len(data) |-> MapItem(data[i])]
      kept == SelectSeq(mapped, LAMBDA m : Truthy(m.id))
  IN  [i \in 1..Len(kept) |-> AsPersona(kept[i])]

\* private fetchFromApi() once the GET has settled as net:
\* [threw, err, val]
fetchFromApi(opts, net) ==
  CASE net.kind = "reject" ->
         [threw |-> TRUE, err |-> <<"fetch failed">>, val |-> <<>>]
    [] net.kind = "status" ->
         [threw |-> TRUE, err |-> <<"HTTP ", ToString(net.status)>>, val |-> <<>>]
    [] net.kind = "badjson" ->
         [threw |-> TRUE, err |-> <<"Unexpected end of JSON input">>, val |-> <<>>]
    [] net.kind = "nodata" ->
         [threw |-> FALSE, err |-> <<>>, val |-> <<>>]
    [] net.kind = "notarray" ->
         [threw |-> TRUE, err |-> <<"body.data.map is not a function">>,
          val |-> <<>>]
    [] OTHER ->
         [threw |-> FALSE, err |-> <<>>, val |-> MapData(net.data)]

\* loadFromEnv() keeping only the first persona of each id
loadFromEnv_Dedup(raw) ==
  IF ~Truthy(raw) THEN <<>>
  ELSE LET tokens == Split(raw.v, ",")
           trimmed == [i \in 1..Len(tokens) |-> Trim(tokens[i])]
           ids == SelectSeq(trimmed, LAMBDA s : s # <<>>)
           first == SelectSeq([i \in 1..Len(ids) |-> i],
                              LAMBDA i : \A j \in 1..(i - 1) : ids[j] # ids[i])
       IN  [k \in 1..Len(first) |->
              [id |-> ids[first[k]], label |-> ids[first[k]]]]

\* loadFromEnv() without the trim
loadFromEnv_NoTrim(raw) ==
  IF ~Truthy(raw) THEN <<>>
  ELSE LET ids == SelectSeq(Split(raw.v, ","), LAMBDA s : s # <<>>)
       IN  [i \in 1..Len(ids) |-> [id |-> ids[i], label |-> ids[i]]]

\* private loadFromEnv(), raw = this.envList
loadFromEnv(raw) ==
  IF ~Truthy(raw) THEN <<>>
  ELSE LET tokens == Split(raw.v, ",")
           trimmed == [i \in 1..Len(tokens) |-> Trim(tokens[i])]
           ids == SelectSeq(trimmed, LAMBDA s : s # <<>>)
       IN  [i \in 1..Len(ids) |-> [id |-> ids[i], label |-> ids[i]]]

\* the built-in list with its two entries exchanged
Defaults_Swapped ==
  << [id |-> <<"ida">>, label |-> <<"Ida (integrator)">>],
     [id |-> <<"gertrude">>, label |-> <<"Gertrude (review hawk)">>] >>

\* const defaults: CustomGpt[]
Defaults ==
  << [id |-> <<"gertrude">>, label |-> <<"Gertrude (review hawk)">>],
     [id |-> <<"ida">>, label |-> <<"Ida (integrator)">>] >>

\* load() up to the fetch: `this.apiKey && this.shouldCallApi()`
loadBegin(opts) ==
  IF Truthy(opts.apiKey) THEN shouldCallApi(opts, <<>>)
  ELSE [ret |-> FALSE, log |-> <<>>]

\* load() from "Fallback to env" on
loadFallback(opts, lines) ==
  LET fallback == loadFromEnv(opts.envList) IN
  IF Len(fallback) # 0
  THEN [raised |-> FALSE, ret |-> fallback, source |-> "env", envRead |-> TRUE,
        log |-> log(opts, lines, MsgFromEnv(Len(fallback)))]
  ELSE [raised |-> FALSE, ret |-> Defaults, source |-> "defaults",
        envRead |-> TRUE, log |-> log(opts, lines, MsgDefaults)]

\* load() with the try block's catch left out
loadSettled_NoCatch(opts, net, lines) ==
  LET f == fetchFromApi(opts, net) IN
  IF f.threw
  THEN [raised |-> TRUE, ret |-> <<>>, source |-> "none", envRead |-> FALSE,
        log |-> lines]
  ELSE IF Len(f.val) # 0
  THEN [raised |-> FALSE, ret |-> f.val, source |-> "api", envRead |-> FALSE,
        log |-> log(opts, lines, MsgFromApi(Len(f.val)))]
  ELSE loadFallback(opts, lines)

\* load() with the env list tried before the API result
loadSettled_EnvFirst(opts, net, lines) ==
  LET f == fetchFromApi(opts, net) IN
  IF Len(loadFromEnv(opts.envList)) # 0 THEN loadFallback(opts, lines)
  ELSE IF f.threw THEN loadFallback(opts, log(opts, lines, MsgFailed(f.err)))
  ELSE IF Len(f.val) # 0
  THEN [raised |-> FALSE, ret |-> f.val, source |-> "api", envRead |-> TRUE,
        log |-> log(opts, lines, MsgFromApi(Len(f.val)))]
  ELSE loadFallback(opts, lines)

\* load() from the point the awaited fetchFromApi() settles
loadSettled(opts, net, lines) ==
  LET f == fetchFromApi(opts, net) IN
  IF f.threw THEN loadFallback(opts, log(opts, lines, MsgFailed(f.err)))
  ELSE IF Len(f.val) # 0
  THEN [raised |-> FALSE, ret |-> f.val, source |-> "api", envRead |-> FALSE,
        log |-> log(opts, lines, MsgFromApi(Len(f.val)))]
  ELSE loadFallback(opts, lines)

\* what the endpoint can answer when no request reached it
NoNet == [kind |-> "none", status |-> 0, data |-> <<>>]

\* async load(): Promise<CustomGpt[]>, the whole call
load(opts, net) ==
  LET b == loadBegin(opts) IN
  IF b.ret THEN loadSettled(opts, net, b.log) ELSE loadFallback(opts, b.log)

----------------------------------------------------------------------------
(* Inputs of the persona source *)

EnvAlphabet == {"a", ",", " "}

EnvLists == {None} \cup {Some(s) : s \in SeqsUpTo(EnvAlphabet, MaxEnvLen)}

ApiKeys == {None, Some(<<>>), Some(<<"k">>)}

BaseUrls == {None, Some(<<"https://example.com">>)}

Overrides == {None, Some(<<>>), Some(<<"https://gpts.example/list">>)}

ServiceOptions ==
  [apiKey : ApiKeys, baseUrl : BaseUrls, envList : EnvLists,
   endpointOverride : Overrides, logger : BOOLEAN]

ApiItem(id, name, display) == [id |-> id, name |-> name, display_name |-> display]

\* GptApiItem = { id: string; name?: string; display_name?: string }, as received
ApiItems ==
  { ApiItem(Some(<<"gpt_1">>), None, Some(<<"My GPT">>)),
    ApiItem(Some(<<"gpt_2">>), Some(<<"Named">>), None),
    ApiItem(Some(<<"gpt_1">>), None, None),
    ApiItem(Some(<<"gpt_2">>), Some(<<"Named">>), Some(<<>>)),
    ApiItem(Some(<<>>), None, Some(<<"My GPT">>)),
    ApiItem(None, Some(<<"Named">>), None) }

NetOutcomes ==
  {[kind |-> k, status |-> 0, data |-> <<>>] :
      k \in {"reject", "badjson", "nodata", "notarray"}}
  \cup {[kind |-> "status", status |-> s, data |-> <<>>] : s \in {404, 500}}
  \cup {[kind |-> "data", status |-> 200, data |-> d] :
          d \in SeqsUpTo(ApiItems, MaxApiItems)}

NoResult ==
  [raised |-> FALSE, ret |-> <<>>, source |-> "none", envRead |-> FALSE]

ResultOf(r) ==
  [raised |-> r.raised, ret |-> r.ret, source |-> r.source,
   envRead |-> r.envRead]

----------------------------------------------------------------------------
(* Context snapshot (src/unnamed/part_000, lines 1-36) *)

MAX_FILES == 20

MAX_OPEN_FILE_BYTES == 10000

\* xs.slice(0, n)
Take(xs, n) == SubSeq(xs, 1, IF Len(xs) < n THEN Len(xs) ELSE n)

\* vscode.workspace.findFiles(include, exclude, maxResults): at most
\* maxResults of the matching files, in the order the listing yields them
findFiles(ws, maxResults) == Take(ws.files, maxResults)

\* buildContextBundle() without the slices and with every file the listing
\* matches
buildContextBundle_Uncapped(ws) ==
  IF ws.findFails
  THEN [threw |-> TRUE,
        val |-> [workspaceName |-> <<>>, files |-> <<>>, openFiles |-> <<>>]]
  ELSE
    [threw |-> FALSE,
     val |->
       [workspaceName |-> IF ws.name.has THEN ws.name.v ELSE <<"workspace">>,
        files |-> ws.files,
        openFiles |->
          LET shown == SelectSeq(ws.editors, LAMBDA e : e.scheme = "file")
          IN  [i \in 1..Len(shown) |->
                 [path |-> shown[i].path, content |-> Some(shown[i].text)]]]]

\* export async function buildContextBundle(): [threw, val]; ws is the
\* workspace as the editor reports it at the call (paths are workspace-relative)
buildContextBundle(ws) ==
  IF ws.findFails
  THEN [threw |-> TRUE,
        val |-> [workspaceName |-> <<>>, files |-> <<>>, openFiles |-> <<>>]]
  ELSE
    [threw |-> FALSE,
     val |->
       [workspaceName |-> IF ws.name.has THEN ws.name.v ELSE <<"workspace">>,
        files |-> findFiles(ws, MAX_FILES),
        openFiles |->
          LET shown == Take(SelectSeq(ws.editors, LAMBDA e : e.scheme = "file"), 5)
          IN  [i \in 1..Len(shown) |->
                 [path |-> shown[i].path,
                  content |-> Some(Take(shown[i].text, MAX_OPEN_FILE_BYTES))]]]]

Editor(scheme, path, text) == [scheme |-> scheme, path |-> path, text |-> text]

\* no folder open
WsNone == [name |-> None, files |-> <<>>, editors |-> <<>>, findFails |-> FALSE]

\* six files, a file editor and a non-file editor visible
WsSix ==
  [name |-> Some(<<"ws">>),
   files |-> << <<"a.ts">>, <<"b.ts">>, <<"c.ts">>, <<"d.ts">>, <<"e.ts">>,
                <<"f.ts">> >>,
   editors |-> << Editor("file", <<"a.ts">>, <<"x", "\n", "y">>),
                  Editor("output", <<"log">>, <<"z">>) >>,
   findFails |-> FALSE]

\* one file, six file editors visible
WsEditors ==
  [name |-> Some(<<"ws">>),
   files |-> << <<"a.ts">> >>,
   editors |-> [i \in 1..6 |-> Editor("file", <<"e", ToString(i)>>, <<"t">>)],
   findFails |-> FALSE]

Workspaces == {WsNone, WsSix, WsEditors}

\* the same workspaces with the file listing failing
FailingWorkspaces == {[w EXCEPT !.findFails = TRUE] : w \in Workspaces}

----------------------------------------------------------------------------
(* MockModelClient (src/unnamed/part_000, lines 609-632) *)

\* a || b on strings
OrElse(a, b) == IF a # <<>> THEN a ELSE b

\* the third line with the persona left out
PersonaLine_AlwaysNone(customGpt) == <<"Custom GPT: ", "none">>

\* `Custom GPT: ${customGpt ?? 'none'}`
PersonaLine(customGpt) ==
  <<"Custom GPT: ">> \o (IF customGpt.has THEN customGpt.v ELSE <<"none">>)

\* context.openFiles.map((f) => f.path)
PathsOf(openFiles) == [i \in 1..Len(openFiles) |-> openFiles[i].path]

\* const response = [ ... ].join('\n')
MockResponse(request) ==
  Join(<< <<"Model: ">> \o request.model,
          <<"Mode: ">> \o request.mode,
          PersonaLine(request.customGpt),
          <<"Workspace: ">> \o request.context.workspaceName,
          <<"Files: ">> \o
            OrElse(Join(Take(request.context.files, 5), <<", ">>), <<"None">>),
          <<"Open files: ">> \o
            OrElse(Join(PathsOf(request.context.openFiles), <<", ">>),
                   <<"None">>),
          <<>>,
          <<"Echo: ">> \o request.prompt,
          <<>>,
          <<"Mock client is active (set OPENAI_API_KEY to use a real model).">>
       >>, <<"\n">>)

\* a chunk without its line break
MockChunk_NoBreak(part) == part

\* onChunk?.(part + '\n')
MockChunk(part) == part \o <<"\n">>

Modes == {<<"chat">>, <<"agent">>, <<"full-agent">>}

MockRequests ==
  [model : {<<"gpt-4.1">>, <<"custom-endpoint">>},
   mode : Modes,
   customGpt : {None, Some(<<>>), Some(<<"my-custom">>), Some(<<"a", "\n", "b">>)},
   prompt : SeqsUpTo({"h", "\n"}, MaxPromptLen),
   context : {buildContextBundle(w).val : w \in Workspaces}]

NoRequest ==
  [model |-> <<>>, mode |-> <<>>, customGpt |-> None, prompt |-> <<>>,
   context |-> [workspaceName |-> <<>>, files |-> <<>>, openFiles |-> <<>>]]

----------------------------------------------------------------------------
(* OpenAiModelClient (src/unnamed/part_000, lines 634-693) *)

\* function formatContext(context: ContextBundle): string
formatContext(context) ==
  LET bullets ==
        [i \in 1..Len(context.openFiles) |->
           <<"- ">> \o context.openFiles[i].path \o
           (IF Truthy(context.openFiles[i].content)
            THEN <<"\n", "---", "\n">> \o context.openFiles[i].content.v
                   \o <<"\n", "---">>
            ELSE <<>>)]
      openFiles == Join(bullets, <<"\n">>)
  IN  Join(<< <<"Workspace: ">> \o context.workspaceName,
              <<"Files (sample): ">> \o
                OrElse(Join(Take(context.files, 10), <<", ">>), <<"None">>),
              <<"Open files:", "\n">> \o OrElse(openFiles, <<"None">>) >>,
           <<"\n">>)

\* const systemPrompt = [ ... ].filter(Boolean).join('\n')
SystemPrompt(request) ==
  Join(<< <<"You are GPTStudio, a coding copilot working inside VS Code.">>,
          <<"Be concise. Return plain text.">>,
          <<"Use the provided context (files, open buffers) to ground answers.">>,
          <<"Mode: ">> \o request.mode >>
       \o (IF Truthy(request.customGpt)
           THEN << <<"Persona: ">> \o request.customGpt.v >> ELSE <<>>),
       <<"\n">>)

\* the body with the selected model passed through as it is
OpenAiBody_NoRewrite(request) ==
  [model |-> request.model,
   messages |->
     << [role |-> "system", content |-> SystemPrompt(request)],
        [role |-> "user",
         content |-> formatContext(request.context)
                       \o <<"\n", "\n", "User: ">> \o request.prompt] >>,
   stream |-> FALSE,
   temperature |-> "0.2"]

\* const body = { model, messages, stream, temperature }
OpenAiBody(request) ==
  [model |-> IF request.model = <<"custom-endpoint">> THEN <<"gpt-4.1">>
             ELSE request.model,
   messages |->
     << [role |-> "system", content |-> SystemPrompt(request)],
        [role |-> "user",
         content |-> formatContext(request.context)
                       \o <<"\n", "\n", "User: ">> \o request.prompt] >>,
   stream |-> FALSE,
   temperature |-> "0.2"]

\* the POST chat() issues: endpoint, method, body
OpenAiPost(client, request) ==
  [endpoint |-> (IF client.baseUrl.has THEN client.baseUrl.v
                 ELSE <<"https://api.openai.com/v1">>)
                \o <<"/chat/completions">>,
   method |-> "POST",
   authorization |-> <<"Bearer ">> \o client.apiKey,
   body |-> OpenAiBody(request)]

\* chat() handing on the content as received, blank content included
OpenAiChat_NoTrim(request, net) ==
  CASE net.kind = "reject" ->
         [threw |-> TRUE, err |-> <<"fetch failed">>, chunks |-> <<>>,
          ret |-> <<>>]
    [] net.kind = "status" ->
         [threw |-> TRUE,
          err |-> <<"Model request failed (", ToString(net.status), "): ">>
                    \o net.text,
          chunks |-> <<>>, ret |-> <<>>]
    [] OTHER ->
         LET text == IF net.content.has THEN net.content.v ELSE <<>> IN
         IF text = <<>>
         THEN [threw |-> TRUE, err |-> <<"Model returned no content.">>,
               chunks |-> <<>>, ret |-> <<>>]
         ELSE [threw |-> FALSE, err |-> <<>>, chunks |-> <<text>>, ret |-> text]

\* chat() with an error status reported without the status and the body,
\* after the body text was handed to onChunk
OpenAiChat_BodyAsChunk(request, net) ==
  CASE net.kind = "reject" ->
         [threw |-> TRUE, err |-> <<"fetch failed">>, chunks |-> <<>>,
          ret |-> <<>>]
    [] net.kind = "status" ->
         [threw |-> TRUE, err |-> <<"Model request failed">>,
          chunks |-> <<net.text>>, ret |-> <<>>]
    [] OTHER ->
         LET text == IF net.content.has THEN Trim(net.content.v) ELSE <<>> IN
         IF text = <<>>
         THEN [threw |-> TRUE, err |-> <<"Model returned no content.">>,
               chunks |-> <<>>, ret |-> <<>>]
         ELSE [threw |-> FALSE, err |-> <<>>, chunks |-> <<text>>, ret |-> text]

\* OpenAiModelClient.chat() from the point its fetch settles as net:
\* [threw, err, chunks, ret]
OpenAiChat(request, net) ==
  CASE net.kind = "reject" ->
         [threw |-> TRUE, err |-> <<"fetch failed">>, chunks |-> <<>>,
          ret |-> <<>>]
    [] net.kind = "status" ->
         [threw |-> TRUE,
          err |-> <<"Model request failed (", ToString(net.status), "): ">>
                    \o net.text,
          chunks |-> <<>>, ret |-> <<>>]
    [] OTHER ->
         LET text == IF net.content.has THEN Trim(net.content.v) ELSE <<>> IN
         IF text = <<>>
         THEN [threw |-> TRUE, err |-> <<"Model returned no content.">>,
               chunks |-> <<>>, ret |-> <<>>]
         ELSE [threw |-> FALSE, err |-> <<>>, chunks |-> <<text>>, ret |-> text]

ChatNet(kind, status, text, content) ==
  [kind |-> kind, status |-> status, text |-> text, content |-> content]

\* the chat endpoint has not answered
NoChatNet == ChatNet("none", 0, <<>>, None)

\* what the chat endpoint can answer: network failure, an error status with
\* and without a body, success without content, with blank content, with
\* content
ChatNetOutcomes ==
  { ChatNet("reject", 0, <<>>, None),
    ChatNet("status", 500, <<"oops">>, None),
    ChatNet("status", 404, <<>>, None),
    ChatNet("ok", 200, <<>>, None),
    ChatNet("ok", 200, <<>>, Some(<<" ">>)),
    ChatNet("ok", 200, <<>>, Some(<<" ", "hello", " ">>)) }

----------------------------------------------------------------------------
(* GptStudioViewProvider (src/unnamed/part_000, lines 112-266) and           *)
(* createModelClient (lines 598-607)                                        *)

MODEL_CHOICES ==
  << [id |-> <<"gpt-4.1-mini">>, label |-> <<"GPT-4.1 Mini (fast)">>],
     [id |-> <<"gpt-4.1">>, label |-> <<"GPT-4.1 (balanced)">>],
     [id |-> <<"gpt-4o">>, label |-> <<"GPT-4o (vision-capable)">>],
     [id |-> <<"custom-endpoint">>, label |-> <<"Custom Endpoint">>] >>

\* a || b on string | undefined
OrOpt(a, b) == IF Truthy(a) THEN a ELSE b

\* a ?? b on string | undefined
Coalesce(a, b) == IF a.has THEN a ELSE b

\* export function createModelClient(apiKey?, baseUrl?), called without arguments
createModelClient(e) ==
  LET key == Coalesce(e.OPENAI_API_KEY, e.GPTSTUDIO_API_KEY)
      url == Coalesce(e.OPENAI_BASE_URL, e.GPTSTUDIO_API_BASE)
  IN  IF Truthy(key) THEN [kind |-> "live", apiKey |-> key.v, baseUrl |-> url]
      ELSE [kind |-> "mock", apiKey |-> <<>>, baseUrl |-> None]

\* new CustomGptService({ apiKey, baseUrl, envList, logger }) in the constructor
ServiceOptionsOf(e) ==
  [apiKey |-> OrOpt(e.OPENAI_API_KEY, e.GPTSTUDIO_API_KEY),
   baseUrl |-> OrOpt(e.OPENAI_BASE_URL, e.GPTSTUDIO_API_BASE),
   envList |-> e.GPTSTUDIO_CUSTOM_GPTS,
   endpointOverride |-> None,
   logger |-> TRUE]

Env(k1, k2, list) ==
  [OPENAI_API_KEY |-> k1, GPTSTUDIO_API_KEY |-> k2, OPENAI_BASE_URL |-> None,
   GPTSTUDIO_API_BASE |-> None, GPTSTUDIO_CUSTOM_GPTS |-> list]

\* environments drawn: nothing set; a key and a persona list; an empty
\* OPENAI_API_KEY beside a GPTSTUDIO_API_KEY and a list with a repeated id
SessionEnvs ==
  { Env(None, None, None),
    Env(Some(<<"k">>), None, Some(<<"a", ",", "b">>)),
    Env(Some(<<>>), Some(<<"k">>), Some(<<"a", ",", "a">>)) }

\* the 'state' message postState() builds
StateMsg(sm, gs, sg, md) ==
  [type |-> "state", models |-> MODEL_CHOICES, selectedModel |-> sm,
   customGpts |-> gs, selectedCustomGpt |-> sg, mode |-> md]

\* the 'context' message postContextPreview() builds
ContextMsg(ctx) ==
  [type |-> "context", files |-> ctx.files, openFiles |-> PathsOf(ctx.openFiles)]

ResponseStart == [type |-> "responseStart"]

ResponseChunk(text) == [type |-> "responseChunk", text |-> text]

ResponseDone(text) == [type |-> "responseDone", text |-> text]

ErrorMsg(message) == [type |-> "error", message |-> message]

NoMsg == [type |-> "none"]

\* `[Chat] model=... mode=... customGpt=...`
ChatLogLine(sm, md, sg) ==
  <<"[Chat] model=">> \o sm \o <<" mode=">> \o md \o <<" customGpt=">>
    \o (IF sg.has THEN sg.v ELSE <<"none">>)

\* `[Chat error] ${message}`
ChatErrorLine(message) == <<"[Chat error] ">> \o message

\* the selections a request carries
Selections(sm, md, sg) == [model |-> sm, mode |-> md, customGpt |-> sg]

NoSelections == Selections(<<>>, <<>>, None)

\* a chat turn that has not been submitted; atSubmit and afterError are
\* history: the selections when the chat event was received, kept until the
\* backend's first step after the request was passed to it, and whether an
\* earlier turn had posted its error when the chat event was received
NoTurn ==
  [pc |-> "unused", content |-> <<>>, req |-> NoRequest, parts |-> <<>>,
   next |-> 1, events |-> <<>>, log |-> <<>>, posts |-> <<>>,
   failure |-> None, ret |-> None, atSubmit |-> NoSelections,
   afterError |-> FALSE]

\* inputs of the UI events
ModelInputs == {<<"gpt-4.1">>, <<"custom-endpoint">>}

GptIdInputs == {customGpts[i].id : i \in 1..Len(customGpts)} \cup {<<>>, <<"zzz">>}

ChatInputs == {<<"hi">>}

\* what the editor reports when a context snapshot is taken
SessionWorkspaces == {WsSix, [WsSix EXCEPT !.findFails = TRUE]}

\* no responseChunk posted yet
NoWeave == [last |-> 0, woven |-> FALSE]

\* a responseChunk was posted in this turn
HasChunk(turn) ==
  \E i \in 1..Len(turn.events) : turn.events[i].type = "responseChunk"

\* an error was posted in this turn
HasError(turn) ==
  \E i \in 1..Len(turn.events) : turn.events[i].type = "error"

\* turn t posts a responseChunk: its chunks come around another turn's when
\* it has posted one before and the latest one posted is not its own; the
\* latest poster is no longer followed once that has happened
Woven(t) ==
  LET w == weave.woven \/ (HasChunk(turns[t]) /\ weave.last # t)
  IN  [last |-> IF w THEN 0 ELSE t, woven |-> w]

SessionConstructed(e) ==
  /\ env = e
  /\ modelClient = createModelClient(e)
  /\ customGptService = ServiceOptionsOf(e)
  /\ view = FALSE
  /\ selectedModel = MODEL_CHOICES[1].id
  /\ customGpts = <<>>
  /\ selectedCustomGpt = None
  /\ mode = <<"chat">>
  /\ lastContext = None
  /\ refreshPc = "idle"
  /\ readyPc = "none"
  /\ turns = [t \in 1..MaxTurns |-> NoTurn]
  /\ nUi = 0
  /\ lastState = NoMsg
  /\ nStates = 0
  /\ panelMsgs = {}
  /\ reloads = <<>>
  /\ weave = NoWeave

SessionIdle == SessionConstructed(Env(None, None, None))

MockIdle ==
  /\ mkReq = NoRequest
  /\ mkPc = "idle"
  /\ mkParts = <<>>
  /\ mkNext = 1
  /\ mkChunks = <<>>
  /\ mkRet = None

ServiceIdle ==
  /\ svcOpts = [apiKey |-> None, baseUrl |-> None, envList |-> None,
                endpointOverride |-> None, logger |-> FALSE]
  /\ svcPc = "constructed"
  /\ svcLog = <<>>
  /\ svcFetched = <<>>
  /\ svcNet = [kind |-> "none", status |-> 0, data |-> <<>>]
  /\ svcResult = [raised |-> FALSE, ret |-> <<>>, source |-> "none",
                  envRead |-> FALSE]

\* chat() of the live backend has no outcome yet
NoOut == [threw |-> FALSE, err |-> <<>>, ret |-> None]

LiveIdle ==
  /\ lvClient = [kind |-> "live", apiKey |-> <<"k">>, baseUrl |-> None]
  /\ lvReq = NoRequest
  /\ lvPc = "idle"
  /\ lvPosts = <<>>
  /\ lvNet = NoChatNet
  /\ lvChunks = <<>>
  /\ lvOut = NoOut

\* no bundle returned yet
NoBundle == [workspaceName |-> <<>>, files |-> <<>>, openFiles |-> <<>>]

ContextIdle ==
  /\ cxWs = WsNone
  /\ cxPc = "idle"
  /\ cxOut = NoBundle

InitMock ==
  /\ mkReq \in MockRequests
  /\ mkPc = "idle"
  /\ mkParts = <<>>
  /\ mkNext = 1
  /\ mkChunks = <<>>
  /\ mkRet = None
  /\ ServiceIdle
  /\ LiveIdle
  /\ ContextIdle
  /\ SessionIdle

\* chat() is called: builds the response and runs to the first delay
MockChatCall ==
  /\ mkPc = "idle"
  /\ LET parts == Split(MockResponse(mkReq), "\n") IN
     /\ mkParts' = parts
     /\ mkChunks' = Append(mkChunks, MockChunk(parts[1]))
     /\ mkNext' = 2
  /\ mkPc' = "delay"
  /\ UNCHANGED <<mkReq, mkRet, svcVars, lvVars, cxVars, sessVars>>

\* chat() returning at the first delay, with lines still to deliver
MockDelayElapsed_ReturnsEarly ==
  /\ mkPc = "delay"
  /\ mkRet' = Some(MockResponse(mkReq))
  /\ mkPc' = "returned"
  /\ UNCHANGED <<mkReq, mkParts, mkChunks, mkNext, svcVars, lvVars, cxVars,
                 sessVars>>

\* delay(30) elapses: the loop delivers the next line, or ends and chat()
\* returns the response
MockDelayElapsed ==
  /\ mkPc = "delay"
  /\ IF mkNext <= Len(mkParts)
     THEN /\ mkChunks' = Append(mkChunks, MockChunk(mkParts[mkNext]))
          /\ mkNext' = mkNext + 1
          /\ UNCHANGED <<mkPc, mkRet>>
     ELSE /\ mkRet' = Some(MockResponse(mkReq))
          /\ mkPc' = "returned"
          /\ UNCHANGED <<mkChunks, mkNext>>
  /\ UNCHANGED <<mkReq, mkParts, svcVars, lvVars, cxVars, sessVars>>

NextMock == MockChatCall \/ MockDelayElapsed

SpecMock == InitMock /\ [][NextMock]_vars

----------------------------------------------------------------------------
(* The persona source as a state machine: one service, one load() *)

InitLoad ==
  /\ svcOpts \in ServiceOptions
  /\ svcPc = "constructed"
  /\ svcLog = <<>>
  /\ svcFetched = <<>>
  /\ svcNet = NoNet
  /\ svcResult = NoResult
  /\ MockIdle
  /\ LiveIdle
  /\ ContextIdle
  /\ SessionIdle

\* load() is called: runs to the awaited fetch, or to its return when the
\* fetch is not attempted
LoadCall ==
  /\ svcPc = "constructed"
  /\ LET b == loadBegin(svcOpts) IN
     IF b.ret
     THEN /\ svcPc' = "fetching"
          /\ svcFetched' = Append(svcFetched, Endpoint(svcOpts))
          /\ svcLog' = b.log
          /\ UNCHANGED <<svcResult>>
     ELSE LET r == load(svcOpts, NoNet) IN
          /\ svcPc' = "loaded"
          /\ svcLog' = r.log
          /\ svcResult' = ResultOf(r)
          /\ UNCHANGED <<svcFetched>>
  /\ UNCHANGED <<svcOpts, svcNet, mkVars, lvVars, cxVars, sessVars>>

\* the GET settles and load() runs to its return
FetchSettled ==
  /\ svcPc = "fetching"
  /\ \E net \in NetOutcomes :
       LET r == load(svcOpts, net) IN
       /\ svcNet' = net
       /\ svcLog' = r.log
       /\ svcResult' = ResultOf(r)
  /\ svcPc' = "loaded"
  /\ UNCHANGED <<svcOpts, svcFetched, mkVars, lvVars, cxVars, sessVars>>

NextLoad == LoadCall \/ FetchSettled

SpecLoad == InitLoad /\ [][NextLoad]_vars

----------------------------------------------------------------------------
(* The live backend as a state machine: one client, one chat() *)

LiveClients ==
  [kind : {"live"}, apiKey : {<<"k">>},
   baseUrl : {None, Some(<<"https://proxy.example/v1">>)}]

LiveRequests ==
  [model : {<<"gpt-4.1-mini">>, <<"gpt-4.1">>, <<"custom-endpoint">>, <<"my-model">>},
   mode : Modes,
   customGpt : {None, Some(<<>>), Some(<<"my-custom">>)},
   prompt : {<<>>, <<"hi">>},
   context : {buildContextBundle(w).val : w \in Workspaces}]

InitLive ==
  /\ lvClient \in LiveClients
  /\ lvReq \in LiveRequests
  /\ lvPc = "idle"
  /\ lvPosts = <<>>
  /\ lvNet = NoChatNet
  /\ lvChunks = <<>>
  /\ lvOut = NoOut
  /\ ServiceIdle
  /\ MockIdle
  /\ ContextIdle
  /\ SessionIdle

\* chat() is called: builds endpoint and body and runs to the awaited fetch
OpenAiChatCall ==
  /\ lvPc = "idle"
  /\ lvPosts' = Append(lvPosts, OpenAiPost(lvClient, lvReq))
  /\ lvPc' = "fetching"
  /\ UNCHANGED <<lvClient, lvReq, lvNet, lvChunks, lvOut, svcVars, mkVars,
                 cxVars, sessVars>>

\* the POST settles and chat() runs to its return or its throw
OpenAiFetchSettled ==
  /\ lvPc = "fetching"
  /\ \E net \in ChatNetOutcomes :
       LET r == OpenAiChat(lvReq, net) IN
       /\ lvNet' = net
       /\ lvChunks' = lvChunks \o r.chunks
       /\ lvOut' = [threw |-> r.threw, err |-> r.err,
                    ret |-> IF r.threw THEN None ELSE Some(r.ret)]
       /\ lvPc' = IF r.threw THEN "threw" ELSE "returned"
  /\ UNCHANGED <<lvClient, lvReq, lvPosts, svcVars, mkVars, cxVars, sessVars>>

NextLive == OpenAiChatCall \/ OpenAiFetchSettled

SpecLive == InitLive /\ [][NextLive]_vars

----------------------------------------------------------------------------
(* The context snapshot as a state machine: one buildContextBundle() *)

\* a workspace with nf matching files and ne visible editors, the second of
\* them not file-backed and the first showing a document of len characters
CtxWorkspace(named, nf, ne, len, fails) ==
  [name |-> IF named THEN Some(<<"ws">>) ELSE None,
   files |-> [i \in 1..nf |-> <<"f", ToString(i)>>],
   editors |->
     [i \in 1..ne |->
        Editor(IF i = 2 THEN "untitled" ELSE "file", <<"e", ToString(i)>>,
               IF i = 1 THEN [j \in 1..len |-> "x"] ELSE <<"t">>)],
   findFails |-> fails]

\* workspaces below, at and above each of the three caps
ContextWorkspaces ==
  { CtxWorkspace(named, nf, ne, len, fails) :
      named \in BOOLEAN, nf \in {0, 19, 20, 21, 25}, ne \in {0, 1, 6, 7},
      len \in {0, 9999, 10000, 10001}, fails \in BOOLEAN }

InitContext ==
  /\ cxWs \in ContextWorkspaces
  /\ cxPc = "idle"
  /\ cxOut = NoBundle
  /\ ServiceIdle
  /\ MockIdle
  /\ LiveIdle
  /\ SessionIdle

\* buildContextBundle() is called: reads the workspace name and runs to the
\* awaited findFiles
ContextCall ==
  /\ cxPc = "idle"
  /\ cxPc' = "finding"
  /\ UNCHANGED <<cxWs, cxOut, svcVars, mkVars, lvVars, sessVars>>

\* findFiles settles: its rejection leaves buildContextBundle(), otherwise
\* the visible editors are read and the bundle is returned
FindFilesSettled ==
  /\ cxPc = "finding"
  /\ LET b == buildContextBundle(cxWs) IN
     IF b.threw THEN cxPc' = "raised" /\ UNCHANGED cxOut
     ELSE cxPc' = "returned" /\ cxOut' = b.val
  /\ UNCHANGED <<cxWs, svcVars, mkVars, lvVars, sessVars>>

NextContext == ContextCall \/ FindFilesSettled

SpecContext == InitContext /\ [][NextContext]_vars

----------------------------------------------------------------------------
(* The session controller as a state machine: one provider and its panel   *)
(* view, resolved up to MaxResolves times.  A handler runs from one suspension point to the next: the  *)
(* awaited findFiles of buildContextBundle, delay(30) and fetch yield to    *)
(* other events; an await of an already settled promise does not.          *)

Init ==
  /\ \E e \in SessionEnvs : SessionConstructed(e)
  /\ ServiceIdle
  /\ MockIdle
  /\ LiveIdle
  /\ ContextIdle

\* postState() sending the fields as they were before the handler's assignment
PostState_Stale(sm, gs, sg, md) ==
  /\ lastState' = StateMsg(selectedModel, customGpts, selectedCustomGpt, mode)
  /\ nStates' = nStates + 1

\* postState() with the fields as the handler leaves them
PostState(sm, gs, sg, md) ==
  /\ lastState' = StateMsg(sm, gs, sg, md)
  /\ nStates' = nStates + 1

\* the selection refreshCustomGpts() makes: list[0]?.id
FirstId(list) == IF Len(list) > 0 THEN Some(list[1].id) ELSE None

\* resolveWebviewView() returning with the reload still awaiting its list
ResolveWebviewView_ReloadPending ==
  /\ Len(reloads) < MaxResolves
  /\ view' = TRUE
  /\ reloads' = Append(reloads, selectedCustomGpt)
  /\ refreshPc' = "loading"
  /\ readyPc' = IF readyPc = "ctx" THEN "ctx" ELSE "none"
  /\ UNCHANGED <<env, modelClient, customGptService, selectedModel, customGpts,
                 selectedCustomGpt, mode, lastContext, turns, nUi, lastState,
                 nStates, panelMsgs, weave, svcVars, mkVars, lvVars, cxVars>>

\* resolveWebviewView() with a reload that keeps a selection already made
ResolveWebviewView_KeepSelection ==
  /\ Len(reloads) < MaxResolves
  /\ view' = TRUE
  /\ ~loadBegin(customGptService).ret
  /\ LET r == load(customGptService, NoNet)
         list == IF r.raised THEN <<>> ELSE r.ret
         first == IF selectedCustomGpt.has THEN selectedCustomGpt
                  ELSE FirstId(list)
     IN  /\ customGpts' = list
         /\ selectedCustomGpt' = first
         /\ PostState(selectedModel, list, first, mode)
  /\ reloads' = Append(reloads, selectedCustomGpt)
  /\ refreshPc' = "done"
  /\ readyPc' = IF readyPc = "ctx" THEN "ctx" ELSE "none"
  /\ UNCHANGED <<env, modelClient, customGptService, selectedModel, mode,
                 lastContext, turns, nUi, panelMsgs, weave, svcVars, mkVars,
                 lvVars, cxVars>>

\* resolveWebviewView(): sets this.view, registers handleMessage and starts
\* refreshCustomGpts().  The editor calls it when the view is first shown and
\* again each time the view is re-created after having been closed; the
\* provider and its fields live on.  The service is built without an endpoint
\* override, so load() issues no request and its promise is settled when it
\* returns: the continuation of refreshCustomGpts() runs before any webview
\* message is handled.  The new webview sends 'ready' once more, unless the
\* 'ready' handler of the previous one still awaits its snapshot.
ResolveWebviewView ==
  /\ Len(reloads) < MaxResolves
  /\ view' = TRUE
  /\ ~loadBegin(customGptService).ret
  /\ LET r == load(customGptService, NoNet)
         list == IF r.raised THEN <<>> ELSE r.ret
         first == IF r.raised THEN None ELSE FirstId(list)
     IN  /\ customGpts' = list
         /\ selectedCustomGpt' = first
         /\ PostState(selectedModel, list, first, mode)
  /\ reloads' = Append(reloads, selectedCustomGpt)
  /\ refreshPc' = "done"
  /\ readyPc' = IF readyPc = "ctx" THEN "ctx" ELSE "none"
  /\ UNCHANGED <<env, modelClient, customGptService, selectedModel, mode,
                 lastContext, turns, nUi, panelMsgs, weave, svcVars, mkVars,
                 lvVars, cxVars>>

\* handleMessage({ type: 'ready' }) to the await inside postContextPreview()
Ready ==
  /\ view
  /\ readyPc = "none"
  /\ PostState(selectedModel, customGpts, selectedCustomGpt, mode)
  /\ readyPc' = "ctx"
  /\ UNCHANGED <<env, modelClient, customGptService, view, selectedModel,
                 customGpts, selectedCustomGpt, mode, lastContext, refreshPc,
                 turns, nUi, panelMsgs, reloads,
                 weave, svcVars, mkVars, lvVars, cxVars>>

\* the snapshot awaited by the 'ready' handler settles
ReadyContextSettled ==
  /\ readyPc = "ctx"
  /\ \E ws \in SessionWorkspaces :
       LET b == buildContextBundle(ws) IN
       IF b.threw
       THEN readyPc' = "unhandled" /\ UNCHANGED panelMsgs
       ELSE readyPc' = "done" /\ panelMsgs' = panelMsgs \cup {ContextMsg(b.val)}
  /\ UNCHANGED <<env, modelClient, customGptService, view, selectedModel,
                 customGpts, selectedCustomGpt, mode, lastContext, refreshPc,
                 turns, nUi, lastState, nStates, reloads,
                 weave, svcVars, mkVars, lvVars, cxVars>>

\* a 'modelChanged' handler that also clears the persona selection
ModelChanged_ClearsPersona ==
  /\ view
  /\ nUi < MaxUi
  /\ \E m \in ModelInputs :
       /\ selectedModel' = m
       /\ selectedCustomGpt' = None
       /\ PostState(m, customGpts, None, mode)
  /\ nUi' = nUi + 1
  /\ UNCHANGED <<env, modelClient, customGptService, view, customGpts,
                 mode, lastContext, refreshPc, readyPc,
                 turns, panelMsgs, reloads,
                 weave, svcVars, mkVars, lvVars, cxVars>>

\* handleMessage({ type: 'modelChanged', model })
ModelChanged ==
  /\ view
  /\ nUi < MaxUi
  /\ \E m \in ModelInputs :
       /\ selectedModel' = m
       /\ PostState(m, customGpts, selectedCustomGpt, mode)
  /\ nUi' = nUi + 1
  /\ UNCHANGED <<env, modelClient, customGptService, view, customGpts,
                 selectedCustomGpt, mode, lastContext, refreshPc, readyPc,
                 turns, panelMsgs, reloads,
                 weave, svcVars, mkVars, lvVars, cxVars>>

\* handleMessage({ type: 'customGptChanged', id })
CustomGptChanged ==
  /\ view
  /\ nUi < MaxUi
  /\ \E id \in GptIdInputs :
       /\ selectedCustomGpt' = Some(id)
       /\ PostState(selectedModel, customGpts, Some(id), mode)
  /\ nUi' = nUi + 1
  /\ UNCHANGED <<env, modelClient, customGptService, view, selectedModel,
                 customGpts, mode, lastContext, refreshPc, readyPc, turns,
                 panelMsgs, reloads,
                 weave, svcVars, mkVars, lvVars, cxVars>>

\* handleMessage({ type: 'modeChanged', mode })
ModeChanged ==
  /\ view
  /\ nUi < MaxUi
  /\ \E md \in Modes :
       /\ mode' = md
       /\ PostState(selectedModel, customGpts, selectedCustomGpt, md)
  /\ nUi' = nUi + 1
  /\ UNCHANGED <<env, modelClient, customGptService, view, selectedModel,
                 customGpts, selectedCustomGpt, lastContext, refreshPc,
                 readyPc, turns, panelMsgs, reloads,
                 weave, svcVars, mkVars, lvVars, cxVars>>

\* handleMessage() with a type it does not know: the default branch
UnknownMessage ==
  /\ view
  /\ nUi < MaxUi
  /\ panelMsgs' = panelMsgs \cup {ErrorMsg(<<"Unknown message type">>)}
  /\ nUi' = nUi + 1
  /\ UNCHANGED <<env, modelClient, customGptService, view, selectedModel,
                 customGpts, selectedCustomGpt, mode, lastContext, refreshPc,
                 readyPc, turns, lastState, nStates, reloads,
                 weave, svcVars, mkVars, lvVars, cxVars>>

\* a chat event held back until the turns before it have ended
ChatSubmitted_Serialized ==
  /\ view
  /\ \E t \in 1..MaxTurns, content \in ChatInputs :
       /\ turns[t].pc = "unused"
       /\ \A u \in 1..(t - 1) : turns[u].pc \in {"done", "unhandled"}
       /\ turns' = [turns EXCEPT
             ![t].pc = "ctx", ![t].content = content,
             ![t].atSubmit = Selections(selectedModel, mode, selectedCustomGpt),
             ![t].afterError = \E u \in 1..MaxTurns : HasError(turns[u])]
  /\ UNCHANGED <<env, modelClient, customGptService, view, selectedModel,
                 customGpts, selectedCustomGpt, mode, lastContext, refreshPc,
                 readyPc, nUi, lastState, nStates, panelMsgs, reloads,
                 weave, svcVars, mkVars, lvVars, cxVars>>

\* handleMessage({ type: 'chat', content }): handleChat() to its awaited
\* buildContextBundle()
ChatSubmitted ==
  /\ view
  /\ \E t \in 1..MaxTurns, content \in ChatInputs :
       /\ turns[t].pc = "unused"
       /\ \A u \in 1..(t - 1) : turns[u].pc # "unused"
       /\ turns' = [turns EXCEPT
             ![t].pc = "ctx", ![t].content = content,
             ![t].atSubmit = Selections(selectedModel, mode, selectedCustomGpt),
             ![t].afterError = \E u \in 1..MaxTurns : HasError(turns[u])]
  /\ UNCHANGED <<env, modelClient, customGptService, view, selectedModel,
                 customGpts, selectedCustomGpt, mode, lastContext, refreshPc,
                 readyPc, nUi, lastState, nStates, panelMsgs, reloads,
                 weave, svcVars, mkVars, lvVars, cxVars>>

\* the request handleChat() passes to the backend
ChatRequestOf(content, ctx) ==
  [model |-> selectedModel, mode |-> mode, customGpt |-> selectedCustomGpt,
   prompt |-> content, context |-> ctx]

\* the request of turn t built from the selections held when its chat event
\* was received
TurnRequest_AtSubmit(t, ctx) ==
  [model |-> turns[t].atSubmit.model, mode |-> turns[t].atSubmit.mode,
   customGpt |-> turns[t].atSubmit.customGpt,
   prompt |-> turns[t].content, context |-> ctx]

\* the request of turn t: built after the awaited snapshot, from the fields
\* as they are then
TurnRequest(t, ctx) == ChatRequestOf(turns[t].content, ctx)

\* handleChat() from the point buildContextBundle() settles: a rejection
\* leaves handleChat() (the await is outside the try block); otherwise the
\* preview and responseStart are posted and the backend is called, which
\* runs to its first suspension (the simulated backend delivers its first
\* line, the live backend issues its POST)
ChatContextSettled(t) ==
  /\ turns[t].pc = "ctx"
  /\ \E ws \in SessionWorkspaces :
       LET b == buildContextBundle(ws)
           req == TurnRequest(t, b.val)
           opening == <<ContextMsg(b.val), ResponseStart>>
           logged == <<ChatLogLine(selectedModel, mode, selectedCustomGpt)>>
           parts == Split(MockResponse(req), "\n")
       IN
       IF b.threw
       THEN /\ turns' = [turns EXCEPT ![t].pc = "unhandled",
                                      ![t].failure = Some(<<"findFiles failed">>)]
            /\ UNCHANGED <<lastContext, weave>>
       ELSE /\ lastContext' = Some(b.val)
            /\ IF modelClient.kind = "mock"
               THEN /\ turns' = [turns EXCEPT
                          ![t].pc = "streaming", ![t].req = req,
                          ![t].parts = parts, ![t].next = 2,
                          ![t].log = logged,
                          ![t].events =
                             Append(opening, ResponseChunk(MockChunk(parts[1])))]
                    /\ weave' = Woven(t)
               ELSE /\ turns' = [turns EXCEPT
                          ![t].pc = "fetching", ![t].req = req,
                          ![t].log = logged, ![t].events = opening,
                          ![t].posts = <<OpenAiPost(modelClient, req)>>]
                    /\ UNCHANGED weave
  /\ UNCHANGED <<env, modelClient, customGptService, view, selectedModel,
                 customGpts, selectedCustomGpt, mode, refreshPc, readyPc, nUi,
                 lastState, nStates, panelMsgs,
                 reloads,
                 svcVars, mkVars, lvVars, cxVars>>

\* the simulated backend's delay(30) elapses in turn t: the next line is
\* delivered, or chat() returns and handleChat() posts responseDone
MockChunkDue(t) ==
  /\ turns[t].pc = "streaming"
  /\ IF turns[t].next <= Len(turns[t].parts)
     THEN LET chunk == ResponseChunk(MockChunk(turns[t].parts[turns[t].next])) IN
          /\ turns' = [turns EXCEPT ![t].next = @ + 1,
                                    ![t].events = Append(@, chunk),
                                    ![t].atSubmit = NoSelections]
          /\ weave' = Woven(t)
     ELSE LET final == MockResponse(turns[t].req) IN
          /\ turns' = [turns EXCEPT ![t].pc = "done", ![t].ret = Some(final),
                                    ![t].events = Append(@, ResponseDone(final))]
          /\ UNCHANGED weave
  /\ UNCHANGED <<env, modelClient, customGptService, view, selectedModel,
                 customGpts, selectedCustomGpt, mode, lastContext, refreshPc,
                 readyPc, nUi, lastState, nStates, panelMsgs,
                 reloads,
                 svcVars, mkVars, lvVars, cxVars>>

\* the live backend's POST settles in turn t: chat() throws and handleChat()
\* logs and posts error, or chat() delivers its one chunk and returns and
\* handleChat() posts responseDone
LiveSettled(t) ==
  /\ turns[t].pc = "fetching"
  /\ \E net \in ChatNetOutcomes :
       LET r == OpenAiChat(turns[t].req, net) IN
       IF r.threw
       THEN /\ turns' = [turns EXCEPT
                  ![t].pc = "done", ![t].failure = Some(r.err),
                  ![t].atSubmit = NoSelections,
                  ![t].log = Append(@, ChatErrorLine(r.err)),
                  ![t].events = Append(@, ErrorMsg(r.err))]
            /\ UNCHANGED weave
       ELSE /\ turns' = [turns EXCEPT
                  ![t].pc = "done", ![t].ret = Some(r.ret),
                  ![t].atSubmit = NoSelections,
                  ![t].events = Append(Append(@, ResponseChunk(r.chunks[1])),
                                       ResponseDone(r.ret))]
            /\ weave' = Woven(t)
  /\ UNCHANGED <<env, modelClient, customGptService, view, selectedModel,
                 customGpts, selectedCustomGpt, mode, lastContext, refreshPc,
                 readyPc, nUi, lastState, nStates, panelMsgs,
                 reloads,
                 svcVars, mkVars, lvVars, cxVars>>

Next ==
  \/ ResolveWebviewView
  \/ Ready
  \/ ReadyContextSettled
  \/ ModelChanged
  \/ CustomGptChanged
  \/ ModeChanged
  \/ UnknownMessage
  \/ ChatSubmitted
  \/ \E t \in 1..MaxTurns : ChatContextSettled(t)
  \/ \E t \in 1..MaxTurns : MockChunkDue(t)
  \/ \E t \in 1..MaxTurns : LiveSettled(t)

Spec == Init /\ [][Next]_vars

----------------------------------------------------------------------------
(* Claims about the persona source *)

Loaded == svcPc = "loaded"

Logged(message) ==
  \E i \in 1..Len(svcLog) : svcLog[i] = <<"[CustomGptService] ">> \o message

FetchThrew == svcNet.kind \in {"reject", "status", "badjson", "notarray"}

\* C6: load() never raises and always returns a non-empty persona list,
\* whatever the configuration and whatever the remote fetch does; when the
\* fetch throws, the list comes from the env list or from the defaults.
Thm_C6_LoadNeverRaises ==
  Loaded =>
    /\ ~svcResult.raised
    /\ Len(svcResult.ret) > 0
    /\ (svcFetched # <<>> /\ FetchThrew => svcResult.source \in {"env", "defaults"})

Wit_C6_FetchThrewEnvUsed ==
  /\ Loaded
  /\ svcFetched # <<>>
  /\ svcNet.kind = "reject"
  /\ svcResult.source = "env"
  /\ ~svcResult.raised

\* the env list holds a token that is non-empty after trimming
HasToken(raw) ==
  raw.has /\ \E i \in 1..Len(raw.v) : raw.v[i] \notin WhiteSpace \cup {","}

\* the list the remote fetch yielded (empty when not attempted or failed)
ApiYield ==
  IF svcFetched # <<>> /\ svcNet.kind = "data" THEN MapData(svcNet.data) ELSE <<>>

\* C7: the first non-empty source wins: a non-empty API list is returned as
\* is, without consulting the env list; otherwise the env personas when the
\* env list yields a token; otherwise the built-in defaults.
Thm_C7_PriorityChain ==
  Loaded =>
    IF ApiYield # <<>>
    THEN svcResult.ret = ApiYield /\ svcResult.source = "api" /\ ~svcResult.envRead
    ELSE IF HasToken(svcOpts.envList)
    THEN svcResult.source = "env" /\ svcResult.ret = loadFromEnv(svcOpts.envList)
    ELSE svcResult.source = "defaults" /\ svcResult.ret = Defaults

Wit_C7_ApiWinsOverEnv ==
  /\ Loaded
  /\ svcResult.source = "api"
  /\ HasToken(svcOpts.envList)
  /\ Len(svcResult.ret) = 2

SkipLogged ==
  IF svcOpts.endpointOverride = Some(<<>>) THEN Logged(MsgDisabled)
  ELSE Logged(MsgSkipped)

FetchIffKeyAndOverride ==
  (svcFetched # <<>>) <=> (Truthy(svcOpts.apiKey) /\ Truthy(svcOpts.endpointOverride))

FetchTargetIsOverride ==
  \A i \in 1..Len(svcFetched) :
    svcOpts.endpointOverride.has /\ svcFetched[i] = svcOpts.endpointOverride.v

Orig_C9_ApiCalledWithKeyAndBaseUrl ==
  ( /\ Loaded
    /\ Truthy(svcOpts.apiKey)
    /\ svcOpts.baseUrl.has
    /\ ~svcOpts.endpointOverride.has
    /\ ~svcOpts.envList.has )
  => /\ svcFetched # <<>>
     /\ svcNet.kind = "data" /\ MapData(svcNet.data) # <<>>
          => svcResult.ret = MapData(svcNet.data)

\* the comma-free segments of s, by position: [lo, hi] runs between separators
SegmentsOf(s) ==
  LET cuts == {0, Len(s) + 1} \cup {i \in 1..Len(s) : s[i] = ","} IN
  { <<lo + 1, hi - 1>> : <<lo, hi>> \in
      { c \in cuts \X cuts :
          c[1] < c[2] /\ \A m \in cuts : ~(c[1] < m /\ m < c[2]) } }

NonBlank(s, seg) == \E i \in seg[1]..seg[2] : s[i] \notin WhiteSpace

\* the segment without the white space at its two ends
Trimmed(s, seg) ==
  LET ink == {i \in seg[1]..seg[2] : s[i] \notin WhiteSpace}
      lo == CHOOSE i \in ink : \A j \in ink : i <= j
      hi == CHOOSE i \in ink : \A j \in ink : j <= i
  IN  SubSeq(s, lo, hi)

\* C10: when the env list is the source, load() returns one persona per token
\* that is non-empty after trimming, id = label = the trimmed token, in input
\* order, duplicates kept; blank tokens produce none.
Thm_C10_EnvTokens ==
  Loaded /\ svcResult.source = "env" =>
    LET s == svcOpts.envList.v
        segs == {g \in SegmentsOf(s) : NonBlank(s, g)}
        rank(g) == Cardinality({h \in segs : h[1] <= g[1]})
    IN  /\ Len(svcResult.ret) = Cardinality(segs)
        /\ \A g \in segs :
             /\ svcResult.ret[rank(g)].id = Trimmed(s, g)
             /\ svcResult.ret[rank(g)].label = Trimmed(s, g)

Wit_C10_DuplicateAndBlank ==
  /\ Loaded
  /\ svcResult.source = "env"
  /\ svcOpts.envList = Some(<<"a", ",", " ", ",", "a">>)
  /\ Len(svcResult.ret) = 2

----------------------------------------------------------------------------
(* Claims about the simulated backend *)

Returned == mkPc = "returned"

\* C4 as stated: the concatenation of the chunks delivered to onChunk, in
\* delivery order, equals the text chat() returns.
Orig_C4_ChunksEqualFinal ==
  Returned => Concat(mkChunks) = mkRet.v

\* C4 amended: the concatenation of the delivered chunks equals the returned
\* text followed by one line break (the last line is delivered with a break
\* the joined text does not end with).
Thm_C4_ChunksEqualFinalPlusBreak ==
  Returned => Concat(mkChunks) = mkRet.v \o <<"\n">>

Wit_C4_MultiLinePrompt ==
  /\ Returned
  /\ mkReq.prompt = <<"h", "\n">>
  /\ Len(mkChunks) = 11

\* the line 'Custom GPT: <persona>', or 'Custom GPT: none' without a persona,
\* between two line breaks
ExpectedPersonaLine ==
  <<"\n", "Custom GPT: ">>
    \o (IF mkReq.customGpt.has THEN mkReq.customGpt.v ELSE <<"none">>)
    \o <<"\n">>

\* C5: the returned text and the concatenation of the delivered chunks both
\* contain the line 'Custom GPT: <persona>' when the persona is set and
\* 'Custom GPT: none' when it is not.
Thm_C5_PersonaLine ==
  Returned =>
    /\ Contains(mkRet.v, ExpectedPersonaLine)
    /\ Contains(Concat(mkChunks), ExpectedPersonaLine)

Wit_C5_PersonaSet ==
  /\ Returned
  /\ mkReq.customGpt = Some(<<"my-custom">>)
  /\ mkReq.prompt = <<"h">>
  /\ Contains(mkRet.v, <<"Custom GPT: ", "my-custom">>)

----------------------------------------------------------------------------
(* Claims about the session controller *)

\* C1 as stated: in every reachable session state selectedCustomGpt is unset
\* or the id of a persona in the current customGpts list, whatever id a
\* customGptChanged event carries.
Orig_C1_SelectionInList ==
  selectedCustomGpt.has =>
    \E i \in 1..Len(customGpts) : customGpts[i].id = selectedCustomGpt.v

Terminal(e) == e.type \in {"responseDone", "error"}

\* the messages of a turn so far are an initial part of: context,
\* responseStart, responseChunk*, one terminal message
InOrder(events) ==
  \A i \in 1..Len(events) :
    /\ (i = 1) <=> (events[i].type = "context")
    /\ (i = 2) <=> (events[i].type = "responseStart")
    /\ i > 2 => events[i].type \in {"responseChunk", "responseDone", "error"}
    /\ Terminal(events[i]) => i = Len(events)

\* the turn's handler has ended, by returning or by raising
Ended(turn) == turn.pc \in {"done", "unhandled"}

\* the terminal message carries what the backend produced
TerminalCarries(turn) ==
  LET last == turn.events[Len(turn.events)] IN
  /\ Len(turn.events) >= 3
  /\ Terminal(last)
  /\ last.type = "responseDone" => turn.ret.has /\ last.text = turn.ret.v
  /\ last.type = "error" => turn.failure.has /\ last.message # <<>>

\* C2 as stated: the messages of each chat turn come in the order context,
\* responseStart, zero or more responseChunk, then exactly one terminal
\* message (responseDone with the backend's full text, or error with a
\* message); never both terminal messages, never a chunk after the terminal.
Orig_C2_TurnOrder ==
  \A t \in 1..MaxTurns :
    /\ InOrder(turns[t].events)
    /\ Ended(turns[t]) => TerminalCarries(turns[t])

\* the part of C2 that does not depend on the turn reaching its backend call
TurnOrderWhenPosted ==
  \A t \in 1..MaxTurns :
    /\ InOrder(turns[t].events)
    /\ turns[t].pc = "done" => TerminalCarries(turns[t])

\* C3 as stated: no failure during a chat turn leaves the chat handler
\* unhandled; each is turned into a terminal error message carrying its
\* message and is logged, so every ended turn ends with a terminal message.
Orig_C3_FailuresContained ==
  \A t \in 1..MaxTurns :
    /\ turns[t].pc # "unhandled"
    /\ turns[t].failure.has =>
         /\ turns[t].events # <<>>
         /\ turns[t].events[Len(turns[t].events)] = ErrorMsg(turns[t].failure.v)
         /\ \E i \in 1..Len(turns[t].log) :
              turns[t].log[i] = ChatErrorLine(turns[t].failure.v)
    /\ Ended(turns[t]) =>
         turns[t].events # <<>> /\ Terminal(turns[t].events[Len(turns[t].events)])

\* failures of the backend call are contained as C3 says
BackendFailuresContained ==
  \A t \in 1..MaxTurns :
    turns[t].failure.has /\ turns[t].pc = "done" =>
      /\ turns[t].events[Len(turns[t].events)] = ErrorMsg(turns[t].failure.v)
      /\ \E i \in 1..Len(turns[t].log) :
           turns[t].log[i] = ChatErrorLine(turns[t].failure.v)

----------------------------------------------------------------------------
(* Further claims about the persona source *)

\* C11: when no request was issued to the remote endpoint (no credential, or
\* remote resolution not attempted) and the env list yields no token, load()
\* returns exactly gertrude / 'Gertrude (review hawk)' followed by
\* ida / 'Ida (integrator)'.
Thm_C11_DefaultsExactly ==
  Loaded /\ svcFetched = <<>> /\ ~HasToken(svcOpts.envList) =>
    /\ Len(svcResult.ret) = 2
    /\ svcResult.ret[1].id = <<"gertrude">>
    /\ svcResult.ret[1].label = <<"Gertrude (review hawk)">>
    /\ svcResult.ret[2].id = <<"ida">>
    /\ svcResult.ret[2].label = <<"Ida (integrator)">>

Wit_C11_BlankEnvNoCredential ==
  /\ Loaded
  /\ svcFetched = <<>>
  /\ ~svcOpts.apiKey.has
  /\ svcOpts.envList = Some(<<" ", ",">>)
  /\ svcResult.source = "defaults"

UniqueIds(list) ==
  \A i, j \in 1..Len(list) : i # j => list[i].id # list[j].id

\* C17 as stated: no list returned by load() holds two personas with the same
\* id.
Orig_C17_UniqueIds ==
  Loaded => UniqueIds(svcResult.ret)

\* the env list names no token twice (tokens compared after trimming)
EnvTokensDistinct ==
  LET s == svcOpts.envList.v
      segs == {g \in SegmentsOf(s) : NonBlank(s, g)}
  IN  \A g, h \in segs : g # h => Trimmed(s, g) # Trimmed(s, h)

\* the data array of the answer names no non-empty id twice
ApiIdsDistinct ==
  \A i, j \in 1..Len(svcNet.data) :
    i # j /\ Truthy(svcNet.data[i].id) /\ Truthy(svcNet.data[j].id)
      => svcNet.data[i].id # svcNet.data[j].id

\* C17 amended: the defaults have distinct ids; a list from the env list or
\* from the remote API has distinct ids exactly when its input names no id
\* twice (nothing is deduplicated).
Thm_C17_UniqueIffInputUnique ==
  Loaded =>
    /\ svcResult.source = "defaults" => UniqueIds(svcResult.ret)
    /\ svcResult.source = "env" => (UniqueIds(svcResult.ret) <=> EnvTokensDistinct)
    /\ svcResult.source = "api" => (UniqueIds(svcResult.ret) <=> ApiIdsDistinct)

Wit_C17_RepeatedEnvToken ==
  /\ Loaded
  /\ svcResult.source = "env"
  /\ svcOpts.envList = Some(<<"a", ",", " ", "a">>)
  /\ Len(svcResult.ret) = 2
  /\ svcResult.ret[1].id = svcResult.ret[2].id

\* the line holds the number n as one of its pieces
StatesCount(line, n) == \E i \in 1..Len(line) : line[i] = ToString(n)

\* C18 as stated: every completed load() has logged a line that states the
\* count and so the source of the list it returned (a logger being configured).
Orig_C18_CountAndSourceLogged ==
  Loaded /\ svcOpts.logger =>
    \E i \in 1..Len(svcLog) : StatesCount(svcLog[i], Len(svcResult.ret))

\* the line load() is to end its log with, by source
ExpectedLastLine ==
  <<"[CustomGptService] ">> \o
  ( CASE svcResult.source = "api" ->
           <<"Loaded ", ToString(Len(svcResult.ret)), " custom GPT(s) from API.">>
      [] svcResult.source = "env" ->
           <<"Loaded ", ToString(Len(svcResult.ret)),
             " custom GPT(s) from environment fallback.">>
      [] OTHER -> <<"Using default demo custom GPTs.">> )

\* the remote step was skipped by a service that holds a credential
SkippedWithKey == Truthy(svcOpts.apiKey) /\ ~Truthy(svcOpts.endpointOverride)

\* C18 amended: with a logger, the last line of a completed load() names the
\* source of the returned list, with the count for the API and the env list
\* and without a count for the defaults; before it stand only the line of a
\* skip (credential present) and the line of a failed fetch, neither with a
\* count; an empty remote answer is not logged.  Without a logger nothing is
\* logged.
Thm_C18_SourceLineLogged ==
  Loaded =>
    /\ ~svcOpts.logger => svcLog = <<>>
    /\ svcOpts.logger =>
         /\ svcLog # <<>>
         /\ svcLog[Len(svcLog)] = ExpectedLastLine
         /\ svcResult.source \in {"api", "env"} <=>
              StatesCount(svcLog[Len(svcLog)], Len(svcResult.ret))
         /\ Len(svcLog) = 1 + (IF SkippedWithKey THEN 1 ELSE 0)
                            + (IF svcFetched # <<>> /\ FetchThrew THEN 1 ELSE 0)
         /\ \A i \in 1..(Len(svcLog) - 1) :
              ~StatesCount(svcLog[i], Len(svcResult.ret))

Wit_C18_EnvCountLogged ==
  /\ Loaded
  /\ svcOpts.logger
  /\ svcResult.source = "env"
  /\ Len(svcResult.ret) = 3
  /\ svcFetched # <<>>
  /\ FetchThrew
  /\ Len(svcLog) = 2
  /\ StatesCount(svcLog[2], 3)

----------------------------------------------------------------------------
(* Claims about the live backend *)

\* C12: the model field of every request body the live backend sends is never
\* 'custom-endpoint': a request with model 'custom-endpoint' is sent with
\* 'gpt-4.1', every other model value is sent unchanged.
Thm_C12_ModelRewritten ==
  /\ lvPc # "idle" => Len(lvPosts) = 1
  /\ \A i \in 1..Len(lvPosts) :
       /\ lvPosts[i].body.model # <<"custom-endpoint">>
       /\ lvReq.model = <<"custom-endpoint">> =>
            lvPosts[i].body.model = <<"gpt-4.1">>
       /\ lvReq.model # <<"custom-endpoint">> =>
            lvPosts[i].body.model = lvReq.model

Wit_C12_CustomEndpointSent ==
  /\ lvPc = "returned"
  /\ lvReq.model = <<"custom-endpoint">>
  /\ Len(lvPosts) = 1
  /\ lvPosts[1].body.model = <<"gpt-4.1">>

\* s ends with suffix
EndsWith(s, suffix) ==
  /\ Len(suffix) <= Len(s)
  /\ SubSeq(s, Len(s) - Len(suffix) + 1, Len(s)) = suffix

\* C13: a non-success HTTP status from the chat endpoint makes chat() fail
\* with an error whose message holds the numeric status code and ends with
\* the raw body text, and no chunk is delivered to onChunk.
Thm_C13_StatusFails ==
  lvNet.kind = "status" =>
    /\ lvPc = "threw"
    /\ lvOut.threw
    /\ ~lvOut.ret.has
    /\ Contains(lvOut.err, <<ToString(lvNet.status)>>)
    /\ EndsWith(lvOut.err, lvNet.text)
    /\ lvChunks = <<>>

Wit_C13_Status500WithBody ==
  /\ lvPc = "threw"
  /\ lvNet.kind = "status"
  /\ lvNet.status = 500
  /\ lvNet.text = <<"oops">>
  /\ Contains(lvOut.err, <<"500">>)
  /\ lvChunks = <<>>

----------------------------------------------------------------------------
(* Claims about the context snapshot *)

\* the visible editors the snapshot shows: the file-backed ones, in window order
FileEditors(ws) == SelectSeq(ws.editors, LAMBDA e : e.scheme = "file")

\* C15: a returned ContextBundle has at most 20 files, at most 5 openFiles and
\* no content longer than 10,000 characters; a document no longer than the cap
\* is returned whole.
Thm_C15_Caps ==
  cxPc = "returned" =>
    /\ Len(cxOut.files) <= 20
    /\ Len(cxOut.openFiles) <= 5
    /\ \A i \in 1..Len(cxOut.openFiles) :
         /\ cxOut.openFiles[i].content.has
         /\ Len(cxOut.openFiles[i].content.v) <= 10000
         /\ Len(FileEditors(cxWs)[i].text) <= 10000 =>
              cxOut.openFiles[i].content.v = FileEditors(cxWs)[i].text

Wit_C15_AllCapsHit ==
  /\ cxPc = "returned"
  /\ Len(cxWs.files) = 25
  /\ Len(cxOut.files) = 20
  /\ Len(FileEditors(cxWs)) = 6
  /\ Len(cxOut.openFiles) = 5
  /\ Len(cxWs.editors[1].text) = 10001
  /\ Len(cxOut.openFiles[1].content.v) = 10000
  /\ cxOut.openFiles[2].content.v = <<"t">>

\* C16 as stated: buildContextBundle() never raises; when the file listing
\* fails it returns a bundle with empty lists.
Orig_C16_AlwaysSucceeds ==
  /\ cxPc # "raised"
  /\ cxWs.findFails /\ cxPc = "returned" =>
       cxOut.files = <<>> /\ cxOut.openFiles = <<>>

\* what holds instead: a failing file listing makes buildContextBundle() raise
ListingFailureRaises ==
  cxPc \in {"returned", "raised"} => (cxPc = "raised" <=> cxWs.findFails)

----------------------------------------------------------------------------
(* Further claims about the session controller *)

\* one of the two credential variables of the environment holds a value
CredentialPresent(e) ==
  Truthy(e.OPENAI_API_KEY) \/ Truthy(e.GPTSTUDIO_API_KEY)

\* C14 as stated: the session's chat backend is the simulated one if no
\* credential value was present when the provider was constructed and the
\* live one if one was present, and it stays that backend.
Orig_C14_BackendByCredential ==
  /\ modelClient.kind = (IF CredentialPresent(env) THEN "live" ELSE "mock")
  /\ modelClient = createModelClient(env)

\* the part of C14 about time: no handler replaces the backend
BackendNeverReplaced == [][modelClient' = modelClient]_vars

\* the list a reload of this session's persona source yields
ReloadedList == load(customGptService, NoNet).ret

\* C19: each completed persona reload replaces the session's list by the
\* loaded list and sets selectedCustomGpt to the id of its first entry
\* (cleared when the list is empty), whatever was selected before.
Thm_C19_ReloadResetsSelection ==
  [][ Len(reloads') > Len(reloads) =>
        /\ customGpts' = ReloadedList
        /\ selectedCustomGpt' =
             (IF customGpts' = <<>> THEN None ELSE Some(customGpts'[1].id))
        /\ reloads'[Len(reloads')] = selectedCustomGpt ]_vars

Wit_C19_UserChoiceReplaced ==
  /\ Len(reloads) = 2
  /\ reloads[2] = Some(<<"zzz">>)
  /\ customGpts # <<>>
  /\ selectedCustomGpt = Some(customGpts[1].id)
  /\ lastState.selectedCustomGpt = selectedCustomGpt

\* the fields a 'state' message shows
Visible == <<selectedModel, customGpts, selectedCustomGpt, mode>>

\* C20: every step that changes selectedModel, customGpts, selectedCustomGpt
\* or mode posts, within the same handler run, one state message carrying
\* the four fields as the step leaves them; hence the last state message
\* posted always equals the current session state.
Thm_C20_StateReemitted ==
  /\ [](nStates > 0 =>
          lastState = StateMsg(selectedModel, customGpts, selectedCustomGpt, mode))
  /\ [][ Visible' # Visible =>
           /\ nStates' = nStates + 1
           /\ lastState'.type = "state"
           /\ lastState'.selectedModel = selectedModel'
           /\ lastState'.customGpts = customGpts'
           /\ lastState'.selectedCustomGpt = selectedCustomGpt'
           /\ lastState'.mode = mode' ]_vars

Wit_C20_ModeChangePosted ==
  /\ nUi = 1
  /\ mode = <<"agent">>
  /\ nStates >= 2
  /\ lastState.type = "state"
  /\ lastState.mode = <<"agent">>

----------------------------------------------------------------------------
(* Further claims about the two backends *)

LiveSettledNow == lvPc \in {"returned", "threw"}

\* C23 as stated: a chunk is delivered iff chat() succeeds; a success status
\* with non-empty content gives exactly one chunk, equal to the returned
\* text; a success status with empty or missing content gives the 'no
\* content' error and no chunk; one POST is issued per call.
Orig_C23_ChunkIffContent ==
  LiveSettledNow =>
    /\ Len(lvPosts) = 1
    /\ (lvChunks # <<>>) <=> (lvPc = "returned")
    /\ lvNet.kind = "ok" /\ lvNet.content.has /\ lvNet.content.v # <<>> =>
         /\ lvPc = "returned"
         /\ Len(lvChunks) = 1
         /\ lvOut.ret = Some(lvChunks[1])
    /\ lvNet.kind = "ok" /\ (~lvNet.content.has \/ lvNet.content.v = <<>>) =>
         /\ lvPc = "threw"
         /\ lvOut.err = <<"Model returned no content.">>
         /\ lvChunks = <<>>

\* s consists of white space only (the empty text included)
Blank(s) == \A i \in 1..Len(s) : s[i] \in WhiteSpace

\* t is s without the white space at its two ends
IsTrimOf(t, s) ==
  /\ t # <<>>
  /\ t[1] \notin WhiteSpace
  /\ t[Len(t)] \notin WhiteSpace
  /\ \E i \in 0..(Len(s) - Len(t)) :
       /\ SubSeq(s, i + 1, i + Len(t)) = t
       /\ Blank(SubSeq(s, 1, i))
       /\ Blank(SubSeq(s, i + Len(t) + 1, Len(s)))

\* C23 amended: as above, with content counted as empty when it is missing,
\* empty or white space only, and with the one chunk and the returned text
\* being the content without the white space at its two ends.
Thm_C23_ChunkIffTrimmedContent ==
  LiveSettledNow =>
    /\ Len(lvPosts) = 1
    /\ (lvChunks # <<>>) <=> (lvPc = "returned")
    /\ lvNet.kind = "ok" /\ lvNet.content.has /\ ~Blank(lvNet.content.v) =>
         /\ lvPc = "returned"
         /\ Len(lvChunks) = 1
         /\ lvOut.ret = Some(lvChunks[1])
         /\ IsTrimOf(lvChunks[1], lvNet.content.v)
    /\ lvNet.kind = "ok" /\ (~lvNet.content.has \/ Blank(lvNet.content.v)) =>
         /\ lvPc = "threw"
         /\ lvOut.err = <<"Model returned no content.">>
         /\ lvChunks = <<>>

Wit_C23_PaddedContentDelivered ==
  /\ lvPc = "returned"
  /\ lvNet.content = Some(<<" ", "hello", " ">>)
  /\ lvChunks = << <<"hello">> >>
  /\ lvOut.ret = Some(<<"hello">>)
  /\ Len(lvPosts) = 1

\* the number of line breaks in s
Breaks(s) == Cardinality({i \in 1..Len(s) : s[i] = "\n"})

\* a delivered chunk is one line: it ends with its only line break
OneLine(chunk) ==
  /\ chunk # <<>>
  /\ chunk[Len(chunk)] = "\n"
  /\ Breaks(chunk) = 1

\* s begins with prefix
StartsWith(s, prefix) ==
  Len(prefix) <= Len(s) /\ SubSeq(s, 1, Len(prefix)) = prefix

\* C24: the simulated backend delivers the lines of its summary one per
\* chunk, one at a time and in document order, each followed by a line
\* break, and returns the lines joined by line breaks only after the last
\* line has been delivered.
Thm_C24_LineByLine ==
  /\ [](/\ \A i \in 1..Len(mkChunks) : OneLine(mkChunks[i])
        /\ StartsWith(MockResponse(mkReq) \o <<"\n">>, Concat(mkChunks))
        /\ mkRet.has =>
             /\ mkRet.v = MockResponse(mkReq)
             /\ Len(mkChunks) = Breaks(mkRet.v) + 1
             /\ Concat(mkChunks) = mkRet.v \o <<"\n">>)
  /\ [][ /\ Len(mkChunks') <= Len(mkChunks) + 1
         /\ SubSeq(mkChunks', 1, Len(mkChunks)) = mkChunks
         /\ mkRet.has => mkChunks' = mkChunks ]_vars

Wit_C24_AllLinesThenReturn ==
  /\ Returned
  /\ mkReq.prompt = <<"h">>
  /\ Len(mkChunks) = 10
  /\ mkChunks[8] = <<"Echo: ", "h", "\n">>
  /\ mkChunks[3] = <<"Custom GPT: ", "none", "\n">>

----------------------------------------------------------------------------
(* Further claims about the session controller *)

ChunkCount(turn) ==
  Cardinality({i \in 1..Len(turn.events) : turn.events[i].type = "responseChunk"})

\* responseStart was posted in this turn
Started(turn) ==
  \E i \in 1..Len(turn.events) : turn.events[i].type = "responseStart"

\* C22: chat turns are not serialized.  A chat event is accepted while
\* earlier turns are under way, and each step of a turn leaves the other
\* turns as they are, waiting for none of them; so a trace is reached in
\* which a responseChunk of one turn lies between two of another and the
\* second turn's responseStart comes before the first turn's terminal event.
Thm_C22_TurnsNotSerialized ==
  /\ [](view /\ (\E t \in 1..MaxTurns : turns[t].pc = "unused")
          => ENABLED ChatSubmitted)
  /\ [](weave.woven =>
          \E t, u \in 1..MaxTurns :
            t # u /\ ChunkCount(turns[t]) >= 2 /\ ChunkCount(turns[u]) >= 1)
  /\ [][ \A t \in 1..MaxTurns :
           turns'[t] # turns[t] =>
             \A u \in 1..MaxTurns : u # t => turns'[u] = turns[u] ]_vars

Wit_C22_ChunksInterleaved ==
  /\ weave.woven
  /\ Started(turns[2])
  /\ ChunkCount(turns[2]) >= 1
  /\ ChunkCount(turns[1]) >= 2
  /\ turns[1].pc = "streaming"
  /\ ~Ended(turns[1])


\* a turn run in full: context, responseStart, the chunks, one terminal
\* message carrying the backend's outcome
CompleteTurn(turn) ==
  /\ Len(turn.events) >= 3
  /\ turn.events[1].type = "context"
  /\ turn.events[2].type = "responseStart"
  /\ Terminal(turn.events[Len(turn.events)])
  /\ InOrder(turn.events)
  /\ TerminalCarries(turn)

\* the step in which a turn posts its error changes neither the four
\* selections nor any other turn
ErrorStepConfined ==
  [][ \A t \in 1..MaxTurns :
        ~HasError(turns[t]) /\ HasError(turns'[t]) =>
          /\ Visible' = Visible
          /\ modelClient' = modelClient
          /\ \A u \in 1..MaxTurns : u # t => turns'[u] = turns[u] ]_vars

\* C25 as stated: a failed chat turn affects that turn only: the error
\* terminal event leaves selectedModel, the personas, selectedCustomGpt and
\* mode unchanged, and a chat submitted after it runs a complete turn of its
\* own (context, responseStart, chunks, terminal event).
Orig_C25_FailureConfinedToTurn ==
  /\ ErrorStepConfined
  /\ [](\A u \in 1..MaxTurns :
          turns[u].afterError /\ Ended(turns[u]) => CompleteTurn(turns[u]))

\* the part of C25 that holds: the error step is confined, and a chat
\* submitted after it whose own snapshot succeeds runs a complete turn
FailureConfinedWhenSnapshotSucceeds ==
  /\ ErrorStepConfined
  /\ [](\A u \in 1..MaxTurns :
          turns[u].afterError /\ turns[u].pc = "done" => CompleteTurn(turns[u]))

\* a chat submitted after a failed turn has run in full
NextTurnRanInFull ==
  /\ HasError(turns[1])
  /\ turns[2].afterError
  /\ turns[2].pc = "done"
  /\ turns[2].ret.has
  /\ ChunkCount(turns[2]) = 1


\* the session state the UI events act on
SessionFields ==
  <<selectedModel, customGpts, selectedCustomGpt, mode, lastContext,
    modelClient, customGptService>>

\* C26: each UI event changes only its own part of the session state:
\* modelChanged only selectedModel, modeChanged only mode, customGptChanged
\* only selectedCustomGpt, ready nothing, a chat submission only
\* lastContext; the persona list changes only when a persona reload
\* completes.
Thm_C26_FrameOfEachEvent ==
  [][ /\ selectedModel' # selectedModel =>
           /\ nUi' = nUi + 1
           /\ <<customGpts, selectedCustomGpt, mode, lastContext>>'
                = <<customGpts, selectedCustomGpt, mode, lastContext>>
      /\ mode' # mode =>
           /\ nUi' = nUi + 1
           /\ <<selectedModel, customGpts, selectedCustomGpt, lastContext>>'
                = <<selectedModel, customGpts, selectedCustomGpt, lastContext>>
      /\ selectedCustomGpt' # selectedCustomGpt /\ reloads' = reloads =>
           /\ nUi' = nUi + 1
           /\ <<selectedModel, customGpts, mode, lastContext>>'
                = <<selectedModel, customGpts, mode, lastContext>>
      /\ customGpts' # customGpts => Len(reloads') = Len(reloads) + 1
      /\ readyPc' # readyPc /\ reloads' = reloads =>
           SessionFields' = SessionFields
      /\ turns' # turns =>
           /\ <<selectedModel, customGpts, selectedCustomGpt, mode>>'
                = <<selectedModel, customGpts, selectedCustomGpt, mode>>
      /\ lastContext' # lastContext =>
           \E t \in 1..MaxTurns :
             turns[t].pc = "ctx" /\ turns'[t].pc \in {"streaming", "fetching"}
      /\ <<modelClient, customGptService>>' = <<modelClient, customGptService>>
    ]_vars

Wit_C26_EventsHandled ==
  /\ nUi = 1
  /\ selectedModel = <<"custom-endpoint">>
  /\ mode = <<"chat">>
  /\ customGpts # <<>>
  /\ selectedCustomGpt = Some(customGpts[1].id)
  /\ readyPc = "done"
  /\ lastContext.has
  /\ turns[1].pc = "done"


\* the snapshot of turn t settles in this step and the backend is called
BackendCalled(t) ==
  turns[t].pc = "ctx" /\ turns'[t].pc \in {"streaming", "fetching"}

\* C27: the model, mode and persona of a chat request are the session's
\* selections when the turn's context snapshot completes, not those held
\* when the chat event was received: a selection event or reload handled
\* while the snapshot is being built shows in the request passed to the
\* backend.
Thm_C27_RequestReadsFieldsAfterSnapshot ==
  [][ \A t \in 1..MaxTurns :
        BackendCalled(t) =>
          /\ turns'[t].req.model = selectedModel
          /\ turns'[t].req.mode = mode
          /\ turns'[t].req.customGpt = selectedCustomGpt
          /\ turns'[t].req.prompt = turns[t].content
          /\ turns'[t].log = <<ChatLogLine(selectedModel, mode, selectedCustomGpt)>>
          /\ turns'[t].atSubmit = turns[t].atSubmit ]_vars

Wit_C27_ChangeDuringSnapshotSent ==
  /\ turns[1].pc \in {"streaming", "fetching"}
  /\ turns[1].atSubmit.model = MODEL_CHOICES[1].id
  /\ turns[1].atSubmit.model # selectedModel
  /\ turns[1].req.model = <<"custom-endpoint">>
  /\ turns[1].req.model = selectedModel
  /\ nUi = 1

====
